---- MODULE Spec2Model ----
(***************************************************************************)
(* State-machine model of the `init` command of the justd CLI              *)
(* (src/src/utils/repo.ts).  Two implementations of init live in the       *)
(* source: the flag-aware one (lines 94-416, variant "main") and the older *)
(* one (lines 437-651, variant "legacy").  Both are modelled; `variant`    *)
(* says which one a behaviour runs.                                        *)
(*                                                                         *)
(* Strings (paths, file texts, alias keys, theme names) are sequences of   *)
(* tokens.  A token is a chunk of characters that no operation of the code *)
(* splits: " " is one blank, "\n" a line feed, "use client" the directive  *)
(* body, "/*" the wildcard suffix, ".css" the extension.                   *)
(***************************************************************************)
EXTENDS Integers, Sequences, FiniteSets, TLC

\* How often one prompt may reject its input before the model stops offering
\* invalid input (the prompt itself would re-ask for ever).
MaxRetries == 2

\* How many of the three path prompts of one run are answered with a path of
\* the user's own instead of the offered default.
MaxOverrides == 1

VARIABLES
    variant,         \* "main" | "legacy": which init implementation runs
    force,           \* flags.force
    yes,             \* flags.yes
    env,             \* what the helpers of @/utils/helpers and @/utils/git answer
    pc,              \* position of the async function init
    outcome,         \* "running" | "returned" | "exit1" | "thrown"
    logged,          \* user-facing messages emitted so far
    disk,            \* files on disk: path -> content
    dirs,            \* directories created by this run
    layout,          \* componentFolder, uiFolder, utilsFolder, cssLocation
    stubSel,         \* twConfigStub, themeProvider, providers
    retries,         \* rejections of the prompt currently shown
    tsConfig,        \* the parsed tsconfig getUserAlias ends up with
    currentAlias,    \* result of getUserAlias
    selectedGray,    \* result of the theme selection
    grayCalls,       \* number of changeGray invocations
    config,          \* the Config object handed to createConfig
    installCommand,  \* dev packages of the install command
    pending,         \* asynchronous operations started and not yet settled
    started,         \* asynchronous operations in the order they were started
    response,        \* settled fetches: asset -> [status, body]
    settled,         \* how createConfig settled: "none" | "resolved" | "rejected"
    projectType      \* legacy init: the answer to "Select the project type"

vars == <<variant, force, yes, env, pc, outcome, logged, disk, dirs, layout,
          stubSel, retries, tsConfig, currentAlias, selectedGray, grayCalls,
          config, installCommand, pending, started, response, settled, projectType>>

----------------------------------------------------------------------------
(* Values *)

None == <<"<undefined>">>

\* file contents
Stub(id) == [kind |-> "stub", id |-> id, text |-> <<>>]
Text(t) == [kind |-> "text", id |-> "", text |-> t]
Preexisting == [kind |-> "preexisting", id |-> "", text |-> <<>>]

Write(d, p, c) == [q \in (DOMAIN d) \cup {p} |-> IF q = p THEN c ELSE d[q]]

Unlink(d, p) == [q \in (DOMAIN d) \ {p} |-> d[q]]

\* path.join of a directory and one more segment
Join(dir, seg) == IF dir = <<>> THEN <<seg>> ELSE dir \o <<"/", seg>>

IsBlank(tok) == tok \in {" ", "\n"}

RECURSIVE TrimLeft(_)
TrimLeft(s) == IF s # <<>> /\ IsBlank(Head(s)) THEN TrimLeft(Tail(s)) ELSE s

RECURSIVE TrimRight(_)
TrimRight(s) ==
    IF s # <<>> /\ IsBlank(s[Len(s)]) THEN TrimRight(SubSeq(s, 1, Len(s) - 1)) ELSE s

\* String.prototype.trim
Trim(s) == TrimRight(TrimLeft(s))

\* String.prototype.replace(tok, ""): removes the FIRST occurrence only
RECURSIVE ReplaceFirst(_, _)
ReplaceFirst(s, tok) ==
    IF s = <<>> THEN <<>>
    ELSE IF Head(s) = tok THEN Tail(s)
    ELSE <<Head(s)>> \o ReplaceFirst(Tail(s), tok)

----------------------------------------------------------------------------
(* The environment probed by the imported helpers *)

isProjectExists == env.projectExists
isRepoDirty == env.repoDirty
isTailwindInstalled == env.twInstalled
isTailwind3 == env.tailwind3
isNextJs == env.nextJs
isLaravel == env.laravel
isRemix == env.remix
hasFolderSrc == env.srcDir

TailwindConfigJs == <<"tailwind.config.js">>
TailwindConfigTs == <<"tailwind.config.ts">>
JustdJson == <<"justd.json">>
DJson == <<"d.json">>

\* Defaults offered for the folders (helpers of @/utils/helpers)
possibilityComponentsPath ==
    IF isNextJs /\ hasFolderSrc THEN <<"src/components">>
    ELSE IF isNextJs THEN <<"components">>
    ELSE IF isLaravel THEN <<"resources/js/components">>
    ELSE <<"src/components">>

possibilityCssPath ==
    IF isNextJs /\ hasFolderSrc THEN <<"src/app/globals.css">>
    ELSE IF isNextJs THEN <<"app/globals.css">>
    ELSE IF isLaravel THEN <<"resources/css/app.css">>
    ELSE <<"src/index.css">>

possibilityUtilsPath == <<"utils">>

possibilityRootPath == IF hasFolderSrc THEN <<"src">> ELSE <<"">>

\* What a user may type at a path prompt
UserInputs == { <<>>, <<" ">>, <<"custom">> }

\* @inquirer/prompts input: an empty line selects the default
Answer(typed, default) == IF typed = <<>> THEN default ELSE typed

\* the validate callback of the three path prompts
validate(value) == Trim(value) # <<>>

NoLayout == [componentFolder |-> None, uiFolder |-> None,
             utilsFolder |-> None, cssLocation |-> None]
NoStubs == [twConfigStub |-> "", themeProvider |-> "", providers |-> ""]
NoTsConfig == [shape |-> "unread", firstKey |-> <<>>]
NoConfig == [ui |-> None, utils |-> None, gray |-> None, css |-> None,
             alias |-> None, written |-> FALSE]

NoResponse == [status |-> "none", body |-> <<>>]

Aborted == outcome \in {"exit1", "thrown"}
Running == outcome = "running"

----------------------------------------------------------------------------
(* Initial states *)

InitEnvMain ==
    [projectExists : BOOLEAN, repoDirty : BOOLEAN, twInstalled : BOOLEAN,
     tailwind3 : BOOLEAN, nextJs : BOOLEAN, laravel : BOOLEAN,
     remix : BOOLEAN, srcDir : BOOLEAN]

\* the legacy init takes no flags and probes nothing but the two config files
InitEnvLegacy ==
    [projectExists : {TRUE}, repoDirty : {FALSE}, twInstalled : {TRUE},
     tailwind3 : {TRUE}, nextJs : {FALSE}, laravel : {FALSE},
     remix : {FALSE}, srcDir : {FALSE}]

\* at most one of the two Tailwind config files is there before the run
InitDisks ==
    { [p \in S |-> Preexisting] : S \in {{}, {TailwindConfigJs}, {TailwindConfigTs}} }

Init ==
    /\ variant \in {"main", "legacy"}
    /\ IF variant = "main"
       THEN force \in BOOLEAN /\ yes \in BOOLEAN /\ env \in InitEnvMain
       ELSE force = FALSE /\ yes = FALSE /\ env \in InitEnvLegacy
    /\ disk \in InitDisks
    /\ pc = "start"
    /\ outcome = "running"
    /\ logged = {}
    /\ dirs = {}
    /\ layout = NoLayout
    /\ stubSel = NoStubs
    /\ retries = 0
    /\ tsConfig = NoTsConfig
    /\ currentAlias = None
    /\ selectedGray = None
    /\ grayCalls = 0
    /\ config = NoConfig
    /\ installCommand = {}
    /\ pending = {}
    /\ started = <<>>
    /\ response = [primitive |-> NoResponse, classes |-> NoResponse]
    /\ settled = "none"
    /\ projectType = "unasked"

----------------------------------------------------------------------------
(* init, lines 94-416 *)

At(v, l) == variant = v /\ Running /\ pc = l

\* lines 95-98
Start ==
    /\ At("main", "start")
    /\ IF ~isProjectExists
       THEN /\ pc' = "done"
            /\ outcome' = "returned"
            /\ logged' = logged \cup {"startNewProject"}
       ELSE /\ pc' = "git"
            /\ UNCHANGED <<outcome, logged>>
    /\ UNCHANGED <<variant, force, yes, env, disk, dirs, layout, stubSel, retries,
                   tsConfig, currentAlias, selectedGray, grayCalls, config,
                   installCommand, pending, started, response, settled, projectType>>

\* the cleanliness check made whatever the flags
GitCheckWanted_always == TRUE

\* line 100: the cleanliness check is made only without --force
GitCheckWanted == ~force

\* lines 100-113
CheckGit ==
    /\ At("main", "git")
    /\ IF GitCheckWanted
       THEN IF isRepoDirty
            THEN /\ logged' = logged \cup {"isRepoDirty", "Git directory is not clean"}
                 /\ outcome' = "exit1"
                 /\ pc' = "done"
            ELSE /\ logged' = logged \cup {"isRepoDirty"}
                 /\ pc' = "tailwind"
                 /\ UNCHANGED outcome
       ELSE /\ pc' = "tailwind"
            /\ UNCHANGED <<logged, outcome>>
    /\ UNCHANGED <<variant, force, yes, env, disk, dirs, layout, stubSel, retries,
                   tsConfig, currentAlias, selectedGray, grayCalls, config,
                   installCommand, pending, started, response, settled, projectType>>

\* lines 117-123: what init does when tailwindcss is missing
TailwindMissingOutcome == "returned"

\* lines 115-138
CheckTailwind ==
    /\ At("main", "tailwind")
    /\ IF ~isTailwindInstalled
       THEN /\ logged' = logged \cup {"The tailwindcss package is not installed"}
            /\ outcome' = TailwindMissingOutcome
            /\ pc' = "done"
       ELSE /\ pc' = IF yes THEN "defaults" ELSE "ask_components"
            /\ UNCHANGED <<logged, outcome>>
    /\ UNCHANGED <<variant, force, yes, env, disk, dirs, layout, stubSel, retries,
                   tsConfig, currentAlias, selectedGray, grayCalls, config,
                   installCommand, pending, started, response, settled, projectType>>

\* lines 140-144
UseDefaults ==
    /\ At("main", "defaults")
    /\ layout' = [componentFolder |-> possibilityComponentsPath,
                  uiFolder |-> Join(possibilityComponentsPath, "ui"),
                  utilsFolder |-> possibilityUtilsPath,
                  cssLocation |-> possibilityCssPath]
    /\ pc' = "stubs"
    /\ UNCHANGED <<variant, force, yes, env, outcome, logged, disk, dirs, stubSel,
                   retries, tsConfig, currentAlias, selectedGray, grayCalls, config,
                   installCommand, pending, started, response, settled, projectType>>

\* the prompts answered so far with something else than the default
Overrides ==
    Cardinality({ f \in {"componentFolder", "utilsFolder", "cssLocation"} :
                    layout[f] \notin {None, possibilityComponentsPath,
                                      possibilityUtilsPath, possibilityCssPath} })

\* One round of a validated prompt: the answer is accepted into the fields it
\* determines, or the prompt is shown again.
Prompt(label, default, fields, next) ==
    /\ At("main", label)
    /\ \E typed \in UserInputs :
         LET value == Answer(typed, default) IN
         IF validate(value)
         THEN /\ value # default => Overrides < MaxOverrides
              /\ layout' = [f \in DOMAIN layout |->
                              IF f \in DOMAIN fields THEN fields[f][value] ELSE layout[f]]
              /\ retries' = 0
              /\ pc' = next
              /\ UNCHANGED logged
         ELSE /\ retries < MaxRetries
              /\ retries' = retries + 1
              /\ logged' = logged \cup {"Path cannot be empty"}
              /\ UNCHANGED <<layout, pc>>
    /\ UNCHANGED <<variant, force, yes, env, outcome, disk, dirs, stubSel,
                   tsConfig, currentAlias, selectedGray, grayCalls, config,
                   installCommand, pending, started, response, settled, projectType>>

Values == { Answer(t, d) : t \in UserInputs,
            d \in {possibilityComponentsPath, possibilityUtilsPath, possibilityCssPath} }

\* lines 146-153
AskComponents ==
    /\ pc = "ask_components"
    /\ Prompt("ask_components", possibilityComponentsPath,
              [componentFolder |-> [v \in Values |-> v],
               uiFolder |-> [v \in Values |-> Join(v, "ui")]],
              "ask_utils")

\* lines 155-160
AskUtils ==
    /\ pc = "ask_utils"
    /\ Prompt("ask_utils", possibilityUtilsPath,
              [utilsFolder |-> [v \in Values |-> v]], "ask_css")

\* lines 162-167
AskCss ==
    /\ pc = "ask_css"
    /\ Prompt("ask_css", possibilityCssPath,
              [cssLocation |-> [v \in Values |-> v]], "stubs")

\* lines 170-190: the stub triple of the detected framework
SelectedStubs ==
    IF isNextJs /\ hasFolderSrc
    THEN [twConfigStub |-> "1.x/tailwind.config.src.next.stub",
          themeProvider |-> "next/theme-provider.stub",
          providers |-> "next/providers.stub"]
    ELSE IF isNextJs /\ ~hasFolderSrc
    THEN [twConfigStub |-> "1.x/tailwind.config.next.stub",
          themeProvider |-> "next/theme-provider.stub",
          providers |-> "next/providers.stub"]
    ELSE IF isLaravel
    THEN [twConfigStub |-> "1.x/tailwind.config.laravel.stub",
          themeProvider |-> "laravel/theme-provider.stub",
          providers |-> "laravel/providers.stub"]
    ELSE IF isRemix
    THEN [twConfigStub |-> "1.x/tailwind.config.vite.stub",
          themeProvider |-> "remix/theme-provider.stub",
          providers |-> "remix/providers.stub"]
    ELSE [twConfigStub |-> "1.x/tailwind.config.vite.stub",
          themeProvider |-> "next/theme-provider.stub",
          providers |-> "next/providers.stub"]

\* lines 170-190
SelectStubs ==
    /\ At("main", "stubs")
    /\ stubSel' = SelectedStubs
    /\ pc' = "twconfig"
    /\ UNCHANGED <<variant, force, yes, env, outcome, logged, disk, dirs, layout,
                   retries, tsConfig, currentAlias, selectedGray, grayCalls, config,
                   installCommand, pending, started, response, settled, projectType>>

\* lines 193-195
tailwindConfigTarget ==
    IF TailwindConfigJs \in DOMAIN disk THEN TailwindConfigJs ELSE TailwindConfigTs

\* lines 192-211: the stub read or the write may fail; the failure is caught,
\* reported through the spinner, and init goes on.
WriteTailwindConfig ==
    /\ At("main", "twconfig")
    /\ IF isTailwind3
       THEN \E ok \in BOOLEAN :
              IF ok
              THEN /\ disk' = Write(disk, tailwindConfigTarget, Stub(stubSel.twConfigStub))
                   /\ UNCHANGED logged
              ELSE /\ logged' = logged \cup {"Failed to write Tailwind config"}
                   /\ UNCHANGED disk
       ELSE UNCHANGED <<disk, logged>>
    /\ dirs' = dirs \cup {layout.utilsFolder, layout.uiFolder}
    /\ pc' = "alias"
    /\ UNCHANGED <<variant, force, yes, env, outcome, layout, stubSel, retries,
                   tsConfig, currentAlias, selectedGray, grayCalls, config,
                   installCommand, pending, started, response, settled, projectType>>

----------------------------------------------------------------------------
(* getUserAlias, lines 213-283 *)

AliasKeys == { <<"~", "/*">> }

\* What a tsconfig file on disk may look like to getUserAlias
TsFiles ==
    { [shape |-> s, firstKey |-> <<>>] :
        s \in {"absent", "invalid", "noCompilerOptions", "noPaths",
               "emptyPaths", "nullPaths"} }
    \cup { [shape |-> "paths", firstKey |-> k] : k \in AliasKeys }

TsConfigApp == <<"tsconfig.app.json">>
TsConfigJson == <<"tsconfig.json">>

\* line 219: the first of the two files that exists
FoundTsConfigPath(app, json) ==
    IF app.shape # "absent" THEN TsConfigApp
    ELSE IF json.shape # "absent" THEN TsConfigJson
    ELSE None

\* lines 227-250: the object `tsConfig` holds before the paths test, or the way
\* the function ends before it gets there
LoadedTsConfig(app, json) ==
    LET first == IF FoundTsConfigPath(app, json) = TsConfigApp THEN app ELSE json IN
    IF FoundTsConfigPath(app, json) = None THEN [end |-> "exit1", path |-> None, cfg |-> app]
    ELSE IF first.shape = "invalid"
    THEN [end |-> "exit1", path |-> FoundTsConfigPath(app, json), cfg |-> first]
    ELSE IF first.shape # "noCompilerOptions"
    THEN [end |-> "ok", path |-> FoundTsConfigPath(app, json), cfg |-> first]
    ELSE IF FoundTsConfigPath(app, json) = TsConfigApp
    THEN IF json.shape = "absent"
         THEN [end |-> "ok", path |-> TsConfigJson,
               cfg |-> [shape |-> "noPaths", firstKey |-> <<>>]]
         ELSE IF json.shape = "invalid"
         THEN [end |-> "thrown", path |-> TsConfigJson, cfg |-> json]
         ELSE IF json.shape = "noCompilerOptions"
         THEN [end |-> "ok", path |-> TsConfigJson,
               cfg |-> [shape |-> "noPaths", firstKey |-> <<>>]]
         ELSE [end |-> "ok", path |-> TsConfigJson, cfg |-> json]
    ELSE [end |-> "ok", path |-> TsConfigJson,
          cfg |-> [shape |-> "noPaths", firstKey |-> <<>>]]

\* what may be typed at the root-directory prompt of line 255
RootInputs == { <<>> }

\* lines 253-258
DefaultRootPath == <<"./">> \o possibilityRootPath

\* line 261: `${rootPath || "./src"}/*`
AddedPathsTarget(rootPath) ==
    (IF rootPath = <<>> THEN <<"./src">> ELSE rootPath) \o <<"/*">>

\* lines 276-282: what getUserAlias does with the paths object it ends up with
AliasOf(cfg) ==
    IF cfg.shape = "nullPaths" THEN [end |-> "exit1", alias |-> None]
    ELSE IF cfg.shape = "emptyPaths" THEN [end |-> "thrown", alias |-> None]
    ELSE [end |-> "ok", alias |-> ReplaceFirst(cfg.firstKey, "/*")]

\* lines 213-285
GetUserAlias ==
    /\ At("main", "alias")
    /\ \E app \in TsFiles, json \in TsFiles, typed \in RootInputs, writeOk \in BOOLEAN :
         LET loaded == LoadedTsConfig(app, json)
             rootPath == IF yes THEN DefaultRootPath ELSE Answer(typed, DefaultRootPath)
             addPaths == loaded.end = "ok" /\ loaded.cfg.shape = "noPaths"
             cfg == IF addPaths
                    THEN [shape |-> "noPaths", firstKey |-> <<"@", "/*">>]
                    ELSE loaded.cfg
             res == AliasOf(cfg)
         IN
         /\ addPaths \/ (writeOk /\ typed = <<>>)
         /\ yes => typed = <<>>
         /\ IF loaded.end # "ok"
            THEN /\ outcome' = loaded.end
                 /\ pc' = "done"
                 /\ logged' = logged \cup
                      (IF loaded.end = "thrown" THEN {"SyntaxError"}
                       ELSE IF loaded.path = None
                       THEN {"Neither tsconfig.app.json nor tsconfig.json was found"}
                       ELSE {"Error reading tsconfig"})
                 /\ UNCHANGED <<disk, tsConfig, currentAlias>>
            ELSE IF addPaths /\ ~writeOk
            THEN /\ outcome' = "exit1"
                 /\ pc' = "done"
                 /\ logged' = logged \cup {"Failed to write tsconfig"}
                 /\ tsConfig' = cfg
                 /\ UNCHANGED <<disk, currentAlias>>
            ELSE /\ disk' = IF addPaths
                            THEN Write(disk, loaded.path,
                                       Text(<<"@", "/*">> \o AddedPathsTarget(rootPath)))
                            ELSE disk
                 /\ tsConfig' = cfg
                 /\ logged' = logged \cup {"addUiPathToTsConfig"}
                                     \cup (IF res.end = "thrown" THEN {"TypeError"} ELSE {})
                 /\ currentAlias' = res.alias
                 /\ outcome' = IF res.end = "ok" THEN outcome ELSE res.end
                 /\ pc' = IF res.end = "ok" THEN "css" ELSE "done"
    /\ UNCHANGED <<variant, force, yes, env, dirs, layout, stubSel, retries,
                   selectedGray, grayCalls, config, installCommand, pending,
                   started, response, settled, projectType>>

----------------------------------------------------------------------------
(* theme, configuration object and dependency install, lines 287-334 *)

ZincCss == <<"zinc", ".css">>

\* what changeGray (@/commands/change-gray) may resolve to
GrayResults == { ZincCss, <<"slate", ".css">> }

\* the theme asked for whatever the Tailwind version
AsksForGray_always == TRUE

\* line 292: the legacy theme is fixed, the modern one is asked for
AsksForGray == ~isTailwind3

\* lines 287-292, up to the call of changeGray
WriteCss ==
    /\ At("main", "css")
    /\ disk' = IF isTailwind3
               THEN Write(disk, layout.cssLocation, Stub("1.x/zinc.css"))
               ELSE disk
    /\ IF AsksForGray
       THEN /\ pending' = pending \cup {"changeGray"}
            /\ started' = Append(started, "changeGray")
            /\ grayCalls' = grayCalls + 1
            /\ pc' = "await_gray"
            /\ UNCHANGED selectedGray
       ELSE /\ selectedGray' = ZincCss
            /\ pc' = "config_object"
            /\ UNCHANGED <<pending, started, grayCalls>>
    /\ UNCHANGED <<variant, force, yes, env, outcome, logged, dirs, layout, stubSel,
                   retries, tsConfig, currentAlias, config, installCommand,
                   response, settled, projectType>>

\* the palette changeGray leaves at the CSS path
ThemeCss(g) == [kind |-> "theme", id |-> g[1], text |-> <<>>]

\* changeGray resolves (line 292): it has put the chosen theme at cssLocation
ChangeGrayResolves ==
    /\ At("main", "await_gray")
    /\ "changeGray" \in pending
    /\ \E g \in GrayResults :
         /\ selectedGray' = g
         /\ disk' = IF g = None THEN disk
                    ELSE Write(disk, layout.cssLocation, ThemeCss(g))
    /\ pending' = pending \ {"changeGray"}
    /\ pc' = "config_object"
    /\ UNCHANGED <<variant, force, yes, env, outcome, logged, dirs, layout, stubSel,
                   retries, tsConfig, currentAlias, grayCalls, config, installCommand,
                   started, response, settled, projectType>>

\* line 298: selectedGray?.replace(".css", "")
GrayField(g) == IF g = None THEN None ELSE ReplaceFirst(g, ".css")

\* line 300: currentAlias || undefined
AliasField(a) == IF a = <<>> THEN None ELSE a

\* lines 307-319
DevPackages ==
    {"tailwind-variants", "tailwind-merge", "tailwindcss-animate"}
    \cup (IF isTailwind3 THEN {"tailwindcss-react-aria-components"} ELSE {})
    \cup (IF isNextJs THEN {"next-themes"} ELSE {})
    \cup (IF isRemix THEN {"remix-themes"} ELSE {})

\* lines 294-328: the Config object, the install command, the spawn
SpawnInstall ==
    /\ At("main", "config_object")
    /\ config' = [ui |-> layout.uiFolder, utils |-> layout.utilsFolder,
                  gray |-> GrayField(selectedGray), css |-> layout.cssLocation,
                  alias |-> AliasField(currentAlias), written |-> FALSE]
    /\ installCommand' = DevPackages
    /\ pending' = pending \cup {"install"}
    /\ started' = Append(started, "install")
    /\ pc' = "await_install"
    /\ UNCHANGED <<variant, force, yes, env, outcome, logged, disk, dirs, layout,
                   stubSel, retries, tsConfig, currentAlias, selectedGray, grayCalls,
                   response, settled, projectType>>

\* a spawned child process emits "close"
ChildClose ==
    /\ \E c \in {"install", "add"} :
         /\ c \in pending
         /\ pending' = pending \ {c}
    /\ UNCHANGED <<variant, force, yes, env, pc, outcome, logged, disk, dirs, layout,
                   stubSel, retries, tsConfig, currentAlias, selectedGray, grayCalls,
                   config, installCommand, started, response, settled, projectType>>

\* init going on without waiting for the child
InstallClosed_skip == TRUE

\* lines 330-334: the promise resolved by the child's "close" event
InstallClosed == "install" \notin pending

----------------------------------------------------------------------------
(* remote assets, lines 336-352 *)

\* texts the remote repository may serve for components/ui/primitive.tsx
PrimitiveBodies ==
    { <<"\"", "use client", "\"", ";", "\n", "import x">>,
      <<"import x", "\n", "export y">> }

ClassesBody == <<"export classes">>

\* the body GitHub serves with a 404
NotFoundBody == <<"404: Not Found">>

\* how a fetch may settle: a 2xx response, a 404 response, a rejected promise
Responses(bodies) ==
    { [status |-> "ok", body |-> b] : b \in bodies }
    \cup { [status |-> "notfound", body |-> NotFoundBody],
           [status |-> "rejected", body |-> <<>>] }

IsQuote(tok) == tok \in {"\"", "'"}

\* line 344: fileContent.replace(/['"]use client['"]\s*\n?/g, "")
RECURSIVE StripUseClient(_)
StripUseClient(s) ==
    IF s = <<>> THEN <<>>
    ELSE IF Len(s) >= 3 /\ IsQuote(s[1]) /\ s[2] = "use client" /\ IsQuote(s[3])
    THEN StripUseClient(TrimLeft(SubSeq(s, 4, Len(s))))
    ELSE <<Head(s)>> \o StripUseClient(Tail(s))

\* lines 343-345
PrimitiveText(fetched) == IF isLaravel THEN StripUseClient(fetched) ELSE fetched

\* line 339: the status test on the primitive response
PrimitiveRejected(r) == r.status # "ok"

\* lines 350-351: the classes response is used whatever its status
ClassesRejected(r) == FALSE

\* lines 336-337
FetchPrimitive ==
    /\ At("main", "await_install")
    /\ InstallClosed
    /\ pending' = pending \cup {"primitive"}
    /\ started' = Append(started, "primitive")
    /\ pc' = "await_primitive"
    /\ UNCHANGED <<variant, force, yes, env, outcome, logged, disk, dirs, layout,
                   stubSel, retries, tsConfig, currentAlias, selectedGray, grayCalls,
                   config, installCommand, response, settled, projectType>>

\* lines 337-350: the primitive fetch settles and init runs on to the next fetch
PrimitiveResponds ==
    /\ At("main", "await_primitive")
    /\ "primitive" \in pending
    /\ \E r \in Responses(PrimitiveBodies) :
         /\ response' = [response EXCEPT !.primitive = r]
         /\ IF r.status = "rejected" \/ PrimitiveRejected(r)
            THEN /\ outcome' = "thrown"
                 /\ logged' = logged \cup
                      {IF r.status = "rejected" THEN "fetch failed"
                       ELSE "Failed to fetch component"}
                 /\ pc' = "done"
                 /\ pending' = pending \ {"primitive"}
                 /\ UNCHANGED <<disk, started>>
            ELSE /\ disk' = Write(Write(disk, Join(layout.uiFolder, "primitive.tsx"),
                                        Text(PrimitiveText(r.body))),
                                  Join(layout.uiFolder, "index.ts"),
                                  Text(<<"export * from './primitive';">>))
                 /\ pending' = (pending \ {"primitive"}) \cup {"classes"}
                 /\ started' = Append(started, "classes")
                 /\ pc' = "await_classes"
                 /\ UNCHANGED <<outcome, logged>>
    /\ UNCHANGED <<variant, force, yes, env, dirs, layout, stubSel, retries,
                   tsConfig, currentAlias, selectedGray, grayCalls, config,
                   installCommand, settled, projectType>>

\* lines 354-364
WithProviders(d) ==
    LET d1 == IF stubSel.themeProvider # ""
              THEN Write(d, Join(layout.componentFolder, "theme-provider.tsx"),
                         Stub(stubSel.themeProvider))
              ELSE d
    IN IF stubSel.themeProvider # "" /\ stubSel.providers # ""
       THEN Write(d1, Join(layout.componentFolder, "providers.tsx"),
                  Stub(stubSel.providers))
       ELSE d1

\* lines 350-367: the classes fetch settles, the stubs are copied, createConfig
\* is called
ClassesResponds ==
    /\ At("main", "await_classes")
    /\ "classes" \in pending
    /\ \E r \in Responses({ClassesBody}) :
         /\ response' = [response EXCEPT !.classes = r]
         /\ IF r.status = "rejected" \/ ClassesRejected(r)
            THEN /\ outcome' = "thrown"
                 /\ logged' = logged \cup {"fetch failed"}
                 /\ pc' = "done"
                 /\ pending' = pending \ {"classes"}
                 /\ UNCHANGED <<disk, started>>
            ELSE /\ disk' = WithProviders(Write(disk, Join(layout.utilsFolder, "classes.ts"),
                                                Text(r.body)))
                 /\ pending' = (pending \ {"classes"}) \cup {"createConfig"}
                 /\ started' = Append(started, "createConfig")
                 /\ pc' = "await_config"
                 /\ UNCHANGED <<outcome, logged>>
    /\ UNCHANGED <<variant, force, yes, env, dirs, layout, stubSel, retries,
                   tsConfig, currentAlias, selectedGray, grayCalls, config,
                   installCommand, settled, projectType>>

----------------------------------------------------------------------------
(* configuration file and summary, lines 366-416 *)

ConfigFile == [kind |-> "config", id |-> "", text |-> <<>>]

\* lines 368-371: inside `catch (error)` the name `error` is the caught value,
\* not the logger imported at line 84; an Error object is not callable, so the
\* call itself throws and init rejects.
CatchConfigFailure ==
    [logged |-> {"TypeError: error is not a function"}, outcome |-> "thrown"]

\* lines 367-416: createConfig settles and init runs to its end
CreateConfigSettles ==
    /\ At("main", "await_config")
    /\ "createConfig" \in pending
    /\ pending' = pending \ {"createConfig"}
    /\ pc' = "done"
    /\ \E ok \in BOOLEAN :
         IF ok
         THEN /\ settled' = "resolved"
              /\ disk' = Write(disk, JustdJson, ConfigFile)
              /\ config' = [config EXCEPT !.written = TRUE]
              /\ dirs' = dirs \cup {layout.uiFolder}
              /\ logged' = logged \cup {"Configuration saved to justd.json",
                                        "Installation complete."}
              /\ outcome' = "returned"
         ELSE /\ settled' = "rejected"
              /\ logged' = logged \cup CatchConfigFailure.logged
              /\ outcome' = CatchConfigFailure.outcome
              /\ UNCHANGED <<disk, config, dirs>>
    /\ UNCHANGED <<variant, force, yes, env, layout, stubSel, retries, tsConfig,
                   currentAlias, selectedGray, grayCalls, installCommand, started,
                   response, projectType>>

----------------------------------------------------------------------------
(* the older init, lines 437-651 *)

ProjectTypes == {"Next.js", "Laravel", "Vite", "Other"}

\* lines 446-455
LegacyStart ==
    /\ At("legacy", "start")
    /\ IF TailwindConfigJs \notin DOMAIN disk /\ TailwindConfigTs \notin DOMAIN disk
       THEN /\ logged' = logged \cup {"No Tailwind configuration file found"}
            /\ outcome' = "returned"
            /\ pc' = "done"
       ELSE /\ pc' = "l_select"
            /\ UNCHANGED <<logged, outcome>>
    /\ UNCHANGED <<variant, force, yes, env, disk, dirs, layout, stubSel, retries,
                   tsConfig, currentAlias, selectedGray, grayCalls, config,
                   installCommand, pending, started, response, settled, projectType>>

\* lines 468-510: folders and stubs of the selected project type
LegacyLayout(type, hasSrc, components, css) ==
    LET folder == IF type = "Laravel" THEN <<"resources/js/components">>
                  ELSE IF type = "Vite" THEN <<"src/components">>
                  ELSE IF type = "Next.js"
                  THEN (IF hasSrc THEN <<"src/components">> ELSE <<"components">>)
                  ELSE components
    IN [componentFolder |-> folder,
        uiFolder |-> Join(folder, "ui"),
        utilsFolder |-> None,
        cssLocation |-> IF type = "Laravel" THEN <<"resources/css/app.css">>
                        ELSE IF type = "Vite" THEN <<"src/index.css">>
                        ELSE IF type = "Next.js"
                        THEN (IF hasSrc THEN <<"src/app/globals.css">>
                              ELSE <<"app/globals.css">>)
                        ELSE css]

LegacyStubs(type) ==
    IF type = "Laravel"
    THEN [twConfigStub |-> "laravel/tailwind.config.laravel.stub",
          themeProvider |-> "laravel/theme-provider.stub",
          providers |-> "laravel/providers.stub"]
    ELSE IF type = "Vite"
    THEN [twConfigStub |-> "vite/tailwind.config.vite.stub",
          themeProvider |-> "vite/theme-provider.stub",
          providers |-> ""]
    ELSE [twConfigStub |-> "next/tailwind.config.next.stub",
          themeProvider |-> "next/theme-provider.stub",
          providers |-> "next/providers.stub"]

\* lines 457-510: the prompts of the older init do not validate their input
LegacySelectProject ==
    /\ At("legacy", "l_select")
    /\ \E type \in ProjectTypes, hasSrc \in BOOLEAN, t1 \in UserInputs, t2 \in UserInputs :
         /\ type # "Next.js" => hasSrc
         /\ type # "Other" => t1 = <<>> /\ t2 = <<>>
         /\ projectType' = type
         /\ layout' = LegacyLayout(type, hasSrc, Answer(t1, <<"components">>),
                                   Answer(t2, <<"styles/app.css">>))
         /\ stubSel' = LegacyStubs(type)
    /\ pc' = "l_prepare"
    /\ UNCHANGED <<variant, force, yes, env, outcome, logged, disk, dirs, retries,
                   tsConfig, currentAlias, selectedGray, grayCalls, config,
                   installCommand, pending, started, response, settled>>

\* lines 560-570
LegacyPackages ==
    {"react-aria-components", "tailwindcss-react-aria-components", "tailwind-variants",
     "tailwind-merge", "clsx", "justd-icons", "tailwindcss-animate"}

\* lines 512-584: folders, CSS, Tailwind config, then the install is spawned
LegacyPrepare ==
    /\ At("legacy", "l_prepare")
    /\ \E cssSource \in BOOLEAN, configSource \in BOOLEAN :
         LET d1 == IF cssSource
                   THEN Write(disk, layout.cssLocation, Stub("tailwind-css/app.css"))
                   ELSE disk
         IN
         /\ dirs' = dirs \cup {layout.uiFolder, <<"dirname">> \o layout.cssLocation}
         /\ IF ~configSource
            THEN /\ disk' = d1
                 /\ logged' = logged \cup
                      ({"Source Tailwind config file does not exist"}
                       \cup IF cssSource THEN {} ELSE {"Source CSS file does not exist"})
                 /\ outcome' = "returned"
                 /\ pc' = "done"
                 /\ UNCHANGED <<installCommand, pending, started>>
            ELSE /\ disk' = Write(d1, tailwindConfigTarget, Stub(stubSel.twConfigStub))
                 /\ logged' = logged \cup
                      (IF cssSource THEN {} ELSE {"Source CSS file does not exist"})
                 /\ installCommand' = LegacyPackages
                 /\ pending' = pending \cup {"install"}
                 /\ started' = Append(started, "install")
                 /\ pc' = "l_await_install"
                 /\ UNCHANGED outcome
    /\ UNCHANGED <<variant, force, yes, env, layout, stubSel, retries, tsConfig,
                   currentAlias, selectedGray, grayCalls, config, response, settled,
                   projectType>>

\* lines 580-586
LegacyFetchPrimitive ==
    /\ At("legacy", "l_await_install")
    /\ InstallClosed
    /\ pending' = pending \cup {"primitive"}
    /\ started' = Append(started, "primitive")
    /\ pc' = "l_await_primitive"
    /\ UNCHANGED <<variant, force, yes, env, outcome, logged, disk, dirs, layout,
                   stubSel, retries, tsConfig, currentAlias, selectedGray, grayCalls,
                   config, installCommand, response, settled, projectType>>

\* lines 586-628: the response is written whatever its status, the stubs are
\* copied, justd.json is written, `justd-cli add` is spawned
LegacyPrimitiveResponds ==
    /\ At("legacy", "l_await_primitive")
    /\ "primitive" \in pending
    /\ \E r \in Responses(PrimitiveBodies) :
         /\ response' = [response EXCEPT !.primitive = r]
         /\ IF r.status = "rejected"
            THEN /\ outcome' = "thrown"
                 /\ logged' = logged \cup {"fetch failed"}
                 /\ pc' = "done"
                 /\ pending' = pending \ {"primitive"}
                 /\ UNCHANGED <<disk, started, config>>
            ELSE /\ disk' = Write(Unlink(WithProviders(
                                     Write(disk, Join(layout.uiFolder, "primitive.tsx"),
                                           Text(r.body))), DJson),
                                  JustdJson, ConfigFile)
                 /\ config' = [NoConfig EXCEPT !.ui = layout.uiFolder, !.written = TRUE]
                 /\ logged' = logged \cup {"Configuration saved to justd.json",
                                           "Installation complete."}
                 /\ pending' = (pending \ {"primitive"}) \cup {"add"}
                 /\ started' = Append(started, "add")
                 /\ pc' = "l_await_add"
                 /\ UNCHANGED outcome
    /\ UNCHANGED <<variant, force, yes, env, dirs, layout, stubSel, retries,
                   tsConfig, currentAlias, selectedGray, grayCalls, installCommand,
                   settled, projectType>>

\* lines 624-651: the browser is opened without being waited for
LegacyFinish ==
    /\ At("legacy", "l_await_add")
    /\ "add" \notin pending
    /\ \E visitRepo \in BOOLEAN :
         IF visitRepo
         THEN /\ pending' = pending \cup {"open"}
              /\ started' = Append(started, "open")
              /\ UNCHANGED logged
         ELSE /\ logged' = logged \cup {"Happy coding!"}
              /\ UNCHANGED <<pending, started>>
    /\ outcome' = "returned"
    /\ pc' = "done"
    /\ UNCHANGED <<variant, force, yes, env, disk, dirs, layout, stubSel, retries,
                   tsConfig, currentAlias, selectedGray, grayCalls, config,
                   installCommand, response, settled, projectType>>

----------------------------------------------------------------------------
Next ==
    \/ Start
    \/ CheckGit
    \/ CheckTailwind
    \/ UseDefaults
    \/ AskComponents
    \/ AskUtils
    \/ AskCss
    \/ SelectStubs
    \/ WriteTailwindConfig
    \/ GetUserAlias
    \/ WriteCss
    \/ ChangeGrayResolves
    \/ SpawnInstall
    \/ ChildClose
    \/ FetchPrimitive
    \/ PrimitiveResponds
    \/ ClassesResponds
    \/ CreateConfigSettles
    \/ LegacyStart
    \/ LegacySelectProject
    \/ LegacyPrepare
    \/ LegacyFetchPrimitive
    \/ LegacyPrimitiveResponds
    \/ LegacyFinish

Spec == Init /\ [][Next]_vars

----------------------------------------------------------------------------
(* Properties *)

Range(f) == { f[i] : i \in DOMAIN f }

PrimitiveFile == Join(layout.uiFolder, "primitive.tsx")
ClassesFile == Join(layout.utilsFolder, "classes.ts")
ProvidersFile == Join(layout.componentFolder, "providers.tsx")
ThemeProviderFile == Join(layout.componentFolder, "theme-provider.tsx")

TargetOf(asset) == IF asset = "primitive" THEN PrimitiveFile ELSE ClassesFile

\* nothing has been written, created, spawned or fetched by this run
NothingDone ==
    /\ \A p \in DOMAIN disk : disk[p] = Preexisting
    /\ dirs = {}
    /\ started = <<>>
    /\ ~config.written

\* C1: a fetch answered with a non-2xx status aborts the run, its body is not
\* written to the target file and justd.json is not written.
C1_FetchErrorAborts ==
    \A a \in {"primitive", "classes"} :
        response[a].status = "notfound" =>
            /\ outcome = "thrown"
            /\ TargetOf(a) \in DOMAIN disk => disk[TargetOf(a)] # Text(response[a].body)
            /\ JustdJson \notin DOMAIN disk

C3_DirtyTreeAborts ==
    variant = "main" =>
        /\ (isProjectExists /\ isRepoDirty /\ ~force /\ pc \notin {"start", "git"}) =>
              /\ outcome = "exit1"
              /\ "Git directory is not clean" \in logged
              /\ NothingDone
        /\ force =>
              /\ "isRepoDirty" \notin logged
              /\ "Git directory is not clean" \notin logged
              /\ outcome = "exit1" => layout # NoLayout

C3_Witness ==
    /\ variant = "main"
    /\ isRepoDirty /\ ~force
    /\ outcome = "exit1"
    /\ "Git directory is not clean" \in logged

\* C4: when tailwindcss is not installed init stops with a message and a
\* non-zero exit, having written, spawned and fetched nothing.
C4_TailwindMissingExits ==
    (variant = "main" /\ "The tailwindcss package is not installed" \in logged) =>
        /\ outcome = "exit1"
        /\ NothingDone

\* C5: in legacy Tailwind mode, when neither tailwind.config.js nor
\* tailwind.config.ts exists, no step creates one and the step that needs it
\* ends the run.
C5_NoTailwindConfigIsFatal ==
    [][ (isTailwind3 /\ TailwindConfigJs \notin DOMAIN disk
                     /\ TailwindConfigTs \notin DOMAIN disk) =>
          /\ TailwindConfigJs \notin DOMAIN disk'
          /\ TailwindConfigTs \notin DOMAIN disk'
          /\ (variant = "legacy" /\ pc = "start") => pc' = "done"
          /\ (variant = "main" /\ pc = "twconfig") => (pc' = "done" /\ Aborted') ]_vars

IsDirectiveLine(line) ==
    /\ Len(line) = 4
    /\ IsQuote(line[1]) /\ line[2] = "use client" /\ line[3] = line[1] /\ line[4] = ";"

\* length of the first line of a text, its line feed not counted
RECURSIVE FirstLineLen(_)
FirstLineLen(s) ==
    IF s = <<>> \/ Head(s) = "\n" THEN 0 ELSE 1 + FirstLineLen(Tail(s))

\* a text without the lines that are exactly a quoted `use client` and a semicolon
RECURSIVE RemoveDirectiveLines(_)
RemoveDirectiveLines(s) ==
    IF s = <<>> THEN <<>>
    ELSE LET n == FirstLineLen(s)
             line == SubSeq(s, 1, n)
             withFeed == SubSeq(s, 1, IF n < Len(s) THEN n + 1 ELSE n)
             rest == SubSeq(s, Len(withFeed) + 1, Len(s))
         IN (IF IsDirectiveLine(line) THEN <<>> ELSE withFeed) \o RemoveDirectiveLines(rest)

\* C6: for Laravel primitive.tsx holds the fetched text without its directive
\* lines, every other line unchanged; otherwise it holds the fetched text.
C6_DirectiveLinesRemoved ==
    (variant = "main" /\ response.primitive.status = "ok") =>
        disk[PrimitiveFile].text =
            IF isLaravel THEN RemoveDirectiveLines(response.primitive.body)
            ELSE response.primitive.body

IsVite == ~isNextJs /\ ~isLaravel /\ ~isRemix

\* C7: a Vite project gets a theme-provider stub and no providers stub, so
\* providers.tsx is not written; Next.js, Laravel and Remix get both stubs,
\* whatever the Tailwind major version.
C7_ViteHasNoProviders ==
    (variant = "main" /\ stubSel # NoStubs) =>
        /\ stubSel.themeProvider # ""
        /\ IF IsVite
           THEN /\ stubSel.providers = ""
                /\ ProvidersFile \notin DOMAIN disk
           ELSE stubSel.providers # ""

\* C8: the alias is the first key of compilerOptions.paths without its "/*";
\* without such a mapping (no paths key, or an empty paths object) the
\* configuration has no alias and getUserAlias neither ends the run nor throws.
C8_AliasOrAbsent ==
    (variant = "main" /\ tsConfig.shape # "unread"
                      /\ "Failed to write tsconfig" \notin logged) =>
        /\ tsConfig.shape = "paths" =>
              /\ currentAlias \o <<"/*">> = tsConfig.firstKey
              /\ config # NoConfig => config.alias = currentAlias
        /\ tsConfig.shape \in {"noPaths", "emptyPaths"} =>
              /\ ~(pc = "done" /\ Aborted /\ started = <<>>)
              /\ currentAlias = None
              /\ config.alias = None

\* C9: when createConfig rejects, the failure is reported through the error
\* logger and every file written before stays as it was.
C9_ConfigFailureReported ==
    settled = "rejected" =>
        /\ "Error writing to justd.json" \in logged
        /\ outcome # "thrown"
        /\ { PrimitiveFile, Join(layout.uiFolder, "index.ts"), ClassesFile,
             ThemeProviderFile, ProvidersFile, layout.cssLocation } \subseteq DOMAIN disk
        /\ JustdJson \notin DOMAIN disk

\* C10: with Tailwind 3 changeGray is never called, the 1.x/zinc.css stub is
\* what the CSS path holds and the persisted gray is "zinc"; with Tailwind 4
\* or later the zinc stub is never copied, changeGray is called exactly once
\* and the persisted gray is its result without ".css".
C10_GrayByTailwindMajor ==
    variant = "main" =>
        /\ isTailwind3 => grayCalls = 0
        /\ ~isTailwind3 =>
              /\ grayCalls <= 1
              /\ \A p \in DOMAIN disk : disk[p] # Stub("1.x/zinc.css")
        /\ config # NoConfig =>
              IF isTailwind3
              THEN /\ disk[layout.cssLocation] = Stub("1.x/zinc.css")
                   /\ config.gray = <<"zinc">>
                   /\ config.css = layout.cssLocation
              ELSE /\ grayCalls = 1
                   /\ "changeGray" \notin pending
                   /\ config.gray \o <<".css">> = selectedGray

C10_Witness ==
    /\ variant = "main"
    /\ config.written
    /\ isTailwind3
    /\ config.gray = <<"zinc">>

\* C11: an empty or whitespace-only answer to a path prompt is rejected and
\* the prompt shown again, so the components folder, the utils folder and the
\* CSS path that init writes to and persists are never empty or blank.
C11_PathsNeverBlank ==
    /\ \A f \in {"componentFolder", "utilsFolder", "cssLocation"} :
         Trim(layout[f]) # <<>>
    /\ \A f \in {"ui", "utils", "css"} : Trim(config[f]) # <<>>
    /\ \A p \in DOMAIN disk : Trim(p) # <<>> /\ ~IsBlank(Head(p))

\* the framework whose stubs were selected
StubFramework ==
    IF stubSel.twConfigStub \in {"1.x/tailwind.config.src.next.stub",
                                 "1.x/tailwind.config.next.stub"} THEN "next"
    ELSE IF stubSel.twConfigStub = "1.x/tailwind.config.laravel.stub" THEN "laravel"
    ELSE IF stubSel.themeProvider = "remix/theme-provider.stub" THEN "remix"
    ELSE "other"

\* the framework the priority Next.js, Laravel, Remix, other picks
PriorityFramework ==
    IF isNextJs THEN "next"
    ELSE IF isLaravel THEN "laravel"
    ELSE IF isRemix THEN "remix"
    ELSE "other"

\* C12: whatever the framework predicates answer, one framework is chosen by
\* the priority Next.js, Laravel, Remix, other, and the whole run follows it:
\* the stubs, the theme package of the install command (next-themes or
\* remix-themes, never both) and the removal of "use client" for Laravel only.
C12_OneFrameworkPerRun ==
    (variant = "main" /\ stubSel # NoStubs) =>
        /\ StubFramework = PriorityFramework
        /\ installCommand # {} =>
              /\ "next-themes" \in installCommand <=> StubFramework = "next"
              /\ "remix-themes" \in installCommand <=> StubFramework = "remix"
        /\ response.primitive.status = "ok" =>
              disk[PrimitiveFile].text =
                  IF StubFramework = "laravel"
                  THEN StripUseClient(response.primitive.body)
                  ELSE response.primitive.body

====
